---- MODULE Spec2Model ----
(***************************************************************************)
(* A model of qip::StrongType<enumT, enumV, BaseT> (src/src/strongtype.hpp) *)
(*                                                                         *)
(* A client program is a sequence of statements.  Each statement is one    *)
(* expression over the program's objects; overload resolution selects one  *)
(* operator of the header (or rejects the expression), the operator's body *)
(* runs, and EndStatement destroys the temporaries.                        *)
(***************************************************************************)
EXTENDS Integers, Naturals, Sequences, FiniteSets, TLC

\* ------------------------------------------------------------------ bounds
\* Width in bits of the modelled unsigned representation type.
Bits == 2
\* Largest finite magnitude of the modelled floating-point type.
FMax == 1
\* Most insertions made into one stream.
MaxInserts == 1
\* Longest sequence of ++ / -- counted for the increment claims.
MaxSteps == 4

\* ------------------------------------------------- the representation type
\* BaseT is an arithmetic type.  Two are modelled:
\*   "unsigned": the integers 0 .. 2^Bits - 1, arithmetic modulo 2^Bits;
\*   "double"  : a binary floating-point format whose finite values are the
\*               integers -FMax .. FMax, with +inf, -inf and a NaN, rounding
\*               to nearest (ties to even) and overflowing to infinity.
\* A double is encoded as an integer: PosInf, NegInf and NaN are the codes
\* below, every other code is the finite value itself.
Modulus == 2 ^ Bits
PosInf == FMax + 1
NegInf == 0 - (FMax + 1)
NaN == FMax + 2

ArithmeticTypes == {"unsigned", "double"}
\* What std::is_arithmetic<BaseT> answers for the modelled type names.
TypeNames == ArithmeticTypes \cup {"std::string", "int*"}

Values(T) == IF T = "unsigned" THEN 0 .. (Modulus - 1)
             ELSE (NegInf .. PosInf) \cup {NaN}

IsFinite(x) == x # NaN /\ x # PosInf /\ x # NegInf
Abs(x) == IF x < 0 THEN 0 - x ELSE x
Sign(x) == IF x < 0 THEN 0 - 1 ELSE 1

\* Rounding of an exact integer result to the floating-point format.
FRound(x) == IF x > FMax THEN PosInf ELSE IF x < 0 - FMax THEN NegInf ELSE x
FNeg(x) == IF x = NaN THEN NaN ELSE 0 - x

FAdd(x, y) ==
    IF x = NaN \/ y = NaN THEN NaN
    ELSE IF ~IsFinite(x) /\ ~IsFinite(y) THEN (IF x = y THEN x ELSE NaN)
    ELSE IF ~IsFinite(x) THEN x
    ELSE IF ~IsFinite(y) THEN y
    ELSE FRound(x + y)

FMul(x, y) ==
    IF x = NaN \/ y = NaN THEN NaN
    ELSE IF ~IsFinite(x) \/ ~IsFinite(y)
         THEN (IF x = 0 \/ y = 0 THEN NaN
               ELSE IF Sign(x) = Sign(y) THEN PosInf ELSE NegInf)
    ELSE FRound(x * y)

\* n / d for naturals n, d > 0, rounded to the nearest integer, ties to even.
RoundDiv(n, d) ==
    LET q == n \div d
        r == n % d
    IN  IF 2 * r > d THEN q + 1
        ELSE IF 2 * r = d THEN q + (q % 2)
        ELSE q

FDiv(x, y) ==
    IF x = NaN \/ y = NaN THEN NaN
    ELSE IF ~IsFinite(x) /\ ~IsFinite(y) THEN NaN
    ELSE IF ~IsFinite(x) THEN (IF Sign(x) = Sign(y) THEN PosInf ELSE NegInf)
    ELSE IF ~IsFinite(y) THEN 0
    ELSE IF y = 0 THEN (IF x = 0 THEN NaN ELSE IF x > 0 THEN PosInf ELSE NegInf)
    ELSE FRound(Sign(x) * Sign(y) * RoundDiv(Abs(x), Abs(y)))

\* The built-in arithmetic of BaseT: the set of results `x op y` can have.
\* Integer division by zero is undefined behaviour: any value may result
\* (Trapped, the arithmetic exception, is the other outcome; see Outcomes).
PrimAdd(T, x, y) == IF T = "unsigned" THEN (x + y) % Modulus ELSE FAdd(x, y)
PrimSub(T, x, y) == IF T = "unsigned" THEN (x - y) % Modulus ELSE FAdd(x, FNeg(y))
PrimMul(T, x, y) == IF T = "unsigned" THEN (x * y) % Modulus ELSE FMul(x, y)
PrimDiv(T, x, y) == IF T = "unsigned" THEN x \div y ELSE FDiv(x, y)
Undefined(T, op, y) == T = "unsigned" /\ op = "/" /\ y = 0

Prim(T, op, x, y) ==
    CASE op = "+" -> PrimAdd(T, x, y)
      [] op = "-" -> PrimSub(T, x, y)
      [] op = "*" -> PrimMul(T, x, y)
      [] op = "/" -> PrimDiv(T, x, y)

\* The values `x op y` may leave behind: one when defined, any when undefined.
Outcomes(T, op, x, y) ==
    IF Undefined(T, op, y) THEN Values(T) ELSE {Prim(T, op, x, y)}

\* The built-in comparisons of BaseT.  A NaN is unordered: every comparison
\* with it is false except !=.
Unordered(T, x, y) == T = "double" /\ (x = NaN \/ y = NaN)
PrimEq(T, x, y) == ~Unordered(T, x, y) /\ x = y
PrimNe(T, x, y) == ~PrimEq(T, x, y)
PrimLt(T, x, y) == ~Unordered(T, x, y) /\ x < y
PrimGt(T, x, y) == ~Unordered(T, x, y) /\ x > y
PrimLe(T, x, y) == ~Unordered(T, x, y) /\ x <= y
PrimGe(T, x, y) == ~Unordered(T, x, y) /\ x >= y

PrimCmp(T, op, x, y) ==
    CASE op = "==" -> PrimEq(T, x, y)
      [] op = "!=" -> PrimNe(T, x, y)
      [] op = "<"  -> PrimLt(T, x, y)
      [] op = ">"  -> PrimGt(T, x, y)
      [] op = "<=" -> PrimLe(T, x, y)
      [] op = ">=" -> PrimGe(T, x, y)

\* ------------------------------------------------------------------- state
VARIABLES
    enumT,   \* the tag type of the instantiation ("none" before it)
    BaseT,   \* the representation type of the instantiation ("none" before it)
    inst,    \* "template", or what instantiating it gave: "ok" / "ill-formed"
    value,   \* the member `value` of every live object (and the raw variable k)
    last,    \* the statement just evaluated and what it returned (Idle between statements)
    stream,  \* the text stream the program reads and writes
    hist     \* the test program's record of the ++ / -- applied to object a

vars == <<enumT, BaseT, inst, value, last, stream, hist>>

\* The kinds of type a program may pass as enumT, and what std::is_enum
\* answers for each.
TagKinds == {"enum class", "enum", "int"}
IsEnum(k) == k \in {"enum class", "enum"}
IsArithmetic(T) == T \in ArithmeticTypes

\* The program's objects.  a and b are StrongType<U, U::Meters, BaseT>,
\* c is a const StrongType<U, U::Seconds, BaseT>, k is a BaseT variable.
StrongObjects == {"a", "b", "c"}
Objects == StrongObjects \cup {"k"}
TagOf(o) == IF o = "c" THEN "Seconds" ELSE "Meters"

\* An operand of an expression: its static type, value category and
\* constness, the object it names (lvalue) or the value it holds (prvalue).
Strong(o) == [type |-> "StrongT", tag |-> TagOf(o), cat |-> "lvalue",
              const |-> (o = "c"), loc |-> o, val |-> 0]
Named(o) == [type |-> "BaseT", tag |-> "none", cat |-> "lvalue",
             const |-> FALSE, loc |-> o, val |-> 0]
Literal(v) == [type |-> "BaseT", tag |-> "none", cat |-> "prvalue",
               const |-> FALSE, loc |-> "none", val |-> v]
NoArg == [type |-> "none", tag |-> "none", cat |-> "none",
          const |-> FALSE, loc |-> "none", val |-> 0]

StrongArgs == {Strong(o) : o \in StrongObjects \cap DOMAIN value}
BaseArgs == {Named(o) : o \in {"k"} \cap DOMAIN value}
            \cup {Literal(v) : v \in Values(BaseT)}
Args == StrongArgs \cup BaseArgs

\* The static part of an operand: all that overload resolution looks at.
StaticOf(x) == [x EXCEPT !.loc = "none", !.val = 0]

\* What an operator returned.
NoRet == [kind |-> "none", loc |-> "none", val |-> 0, flag |-> FALSE]
RetRef(o) == [NoRet EXCEPT !.kind = "StrongT&", !.loc = o]
RetStrong(v) == [NoRet EXCEPT !.kind = "StrongT", !.val = v]
RetBase(v) == [NoRet EXCEPT !.kind = "BaseT", !.val = v]
RetBaseRef(o) == [NoRet EXCEPT !.kind = "BaseT&", !.loc = o]
RetBool(f) == [NoRet EXCEPT !.kind = "bool", !.flag = f]
RetStream == [NoRet EXCEPT !.kind = "stream&"]
IllFormed == [NoRet EXCEPT !.kind = "ill-formed"]
Trapped == [NoRet EXCEPT !.kind = "trap"]

\* No statement is being evaluated; st is the store and s the stream.
Idle(st, s) == [fn |-> "none", sym |-> "none", lhs |-> NoArg, rhs |-> NoArg,
                pre |-> st, sin |-> s, ret |-> NoRet]

\* The value an operand denotes in store st.
Read(st, x) == IF x.loc = "none" THEN x.val ELSE st[x.loc]

\* ------------------------------------------------------ overload resolution
\* `explicit` on the constructor (line 44) and on operator BaseT (line 45).
ExplicitConstructor == TRUE
ExplicitConversion == TRUE

\* Binds with the operators declared for every tag instead of for enumV: a
\* strong value of any tag initialises a StrongT parameter.
Binds_AnyTag(p, T, x) ==
    CASE p \in {"StrongT", "const StrongT&"} ->
            \/ x.type = "StrongT"
            \/ x.type = "BaseT" /\ ~ExplicitConstructor
      [] p = "this" -> x.type = "StrongT" /\ ~x.const
      [] p = "const this" -> x.type = "StrongT"
      [] p = "const BaseT&" ->
            \/ x.type = "BaseT"
            \/ x.type = "StrongT" /\ ~ExplicitConversion
      [] p = "const BaseT&&" ->
            \/ x.type = "BaseT" /\ x.cat = "prvalue"
            \/ x.type = "StrongT" /\ ~ExplicitConversion
      [] p = "none" -> x.type = "none"

\* Whether operand x can initialise a parameter declared p in an operator of
\* StrongType<enumT, T, BaseT>: an exact match, or an implicit conversion
\* through a constructor / conversion function that is not explicit.  The
\* implicit object parameter admits no user-defined conversion, and a
\* non-const member function does not take a const object.
Binds(p, T, x) ==
    CASE p \in {"StrongT", "const StrongT&"} ->
            \/ x.type = "StrongT" /\ x.tag = T
            \/ x.type = "BaseT" /\ ~ExplicitConstructor
      [] p = "this" -> x.type = "StrongT" /\ x.tag = T /\ ~x.const
      [] p = "const this" -> x.type = "StrongT" /\ x.tag = T
      [] p = "const BaseT&" ->
            \/ x.type = "BaseT"
            \/ x.type = "StrongT" /\ ~ExplicitConversion
      [] p = "const BaseT&&" ->
            \/ x.type = "BaseT" /\ x.cat = "prvalue"
            \/ x.type = "StrongT" /\ ~ExplicitConversion
      [] p = "none" -> x.type = "none"

\* One operator declaration of the header: the symbol it overloads, whether
\* it is a member (found in the left operand's class only) or a friend
\* (found through either operand's class), and its two parameters.
Ov(sym, member, p1, p2) == [sym |-> sym, member |-> member, p1 |-> p1, p2 |-> p2]

OvMulAssign == Ov("*=", TRUE, "this", "const StrongT&")
OvMul == Ov("*", FALSE, "StrongT", "const StrongT&")
OvDivAssign == Ov("/=", TRUE, "this", "const StrongT&")
OvDiv == Ov("/", FALSE, "StrongT", "const StrongT&")
OvAddAssign == Ov("+=", TRUE, "this", "const StrongT&")
OvAdd == Ov("+", FALSE, "StrongT", "const StrongT&")
OvSubAssign == Ov("-=", TRUE, "this", "const StrongT&")
OvSub == Ov("-", FALSE, "StrongT", "const StrongT&")
OvMulAssignBase == Ov("*=", TRUE, "this", "const BaseT&")
OvMulBase == Ov("*", FALSE, "StrongT", "const BaseT&")
OvBaseMul == Ov("*", FALSE, "const BaseT&", "StrongT")
OvDivAssignBase == Ov("/=", TRUE, "this", "const BaseT&")
OvDivBase == Ov("/", FALSE, "StrongT", "const BaseT&")
OvPreInc == Ov("++x", TRUE, "this", "none")
OvPostInc == Ov("x++", TRUE, "this", "none")
OvPreDec == Ov("--x", TRUE, "this", "none")
OvPostDec == Ov("x--", TRUE, "this", "none")

CmpSyms == {"==", "!=", "<", ">", "<=", ">="}
OvCmp(sym) == Ov(sym, FALSE, "const StrongT&", "const StrongT&")
OvCmpLit_ConstRef(sym) == Ov(sym, FALSE, "const StrongT&", "const BaseT&")
OvCmpLit(sym) == Ov(sym, FALSE, "const StrongT&", "const BaseT&&")
OvLitCmp(sym) == Ov(sym, FALSE, "const BaseT&&", "const StrongT&")

Overloads ==
    {OvMulAssign, OvMul, OvDivAssign, OvDiv, OvAddAssign, OvAdd, OvSubAssign,
     OvSub, OvMulAssignBase, OvMulBase, OvBaseMul, OvDivAssignBase, OvDivBase,
     OvPreInc, OvPostInc, OvPreDec, OvPostDec}
    \cup {OvCmp(s) : s \in CmpSyms}
    \cup {OvCmpLit(s) : s \in CmpSyms}
    \cup {OvLitCmp(s) : s \in CmpSyms}

\* The instantiations whose operators are candidates for `l sym r`.
Classes(ov, l, r) ==
    IF ov.member THEN {x.tag : x \in {y \in {l} : y.type = "StrongT"}}
    ELSE {x.tag : x \in {y \in {l, r} : y.type = "StrongT"}}

\* ov is a viable candidate for operands l, r.
Viable(ov, l, r) ==
    \E T \in Classes(ov, l, r) : Binds(ov.p1, T, l) /\ Binds(ov.p2, T, r)

\* The built-in operator on arithmetic operands is a candidate when every
\* operand of class type converts implicitly to BaseT.
BuiltinViable(l, r) ==
    \A x \in {l, r} :
        x.type \in {"BaseT", "none"} \/ (x.type = "StrongT" /\ ~ExplicitConversion)

\* `l = r` (and the copy-initialisation `L l = r`): r's type is l's, or r
\* converts implicitly to it.
Assignable(l, r) ==
    /\ l.cat = "lvalue" /\ ~l.const
    /\ IF l.type = "StrongT" THEN Binds("const StrongT&", l.tag, r)
       ELSE Binds("const BaseT&", "none", r)

\* The expressions a program can write over its operands: a symbol and two
\* operands (one for ++ and --), at least one of them a strong value.
BinarySyms == {"+", "-", "*", "/", "+=", "-=", "*=", "/=", "="} \cup CmpSyms
UnarySyms == {"++x", "x++", "--x", "x--"}
Expressions ==
    {<<s, l, r>> \in BinarySyms \X Args \X Args :
        l.type = "StrongT" \/ r.type = "StrongT"}
    \cup {<<s, l, NoArg>> : s \in UnarySyms, l \in StrongArgs}

\* Overload resolution finds no candidate: the expression does not compile.
NoMatch(sym, l, r) ==
    IF sym = "=" THEN ~Assignable(l, r)
    ELSE /\ \A ov \in Overloads : ov.sym = sym => ~Viable(ov, l, r)
         /\ ~BuiltinViable(l, r)

\* ------------------------------------------------------------ calling
\* The store of a call: the program's objects, and the two argument slots.
\* A by-value parameter is the slot, holding a copy of the operand; a
\* reference parameter is the operand's own object, or the slot when the
\* operand is a temporary.
Frame(st, l, r) ==
    [x \in DOMAIN st \cup {"lhs", "rhs"} |->
        IF x = "lhs" THEN Read(st, l)
        ELSE IF x = "rhs" THEN Read(st, r)
        ELSE st[x]]
ByValue_AsReference(slot, x) == IF x.loc = "none" THEN slot ELSE x.loc
ByValue(slot, x) == slot
ByRef(slot, x) == IF x.loc = "none" THEN slot ELSE x.loc

Outcome(st, ret) == [st |-> st, ret |-> ret]

\* `this->value op= x; return *this;`
CompoundAssign(st, this, op, x) ==
    {Outcome([st EXCEPT ![this] = q], RetRef(this)) :
        q \in Outcomes(BaseT, op, st[this], x)}
    \cup (IF Undefined(BaseT, op, x) THEN {Outcome(st, Trapped)} ELSE {})

\* `return <reference>;` from a function returning StrongT: a copy.
ReturnCopy(o) ==
    IF o.ret.kind = "trap" THEN o
    ELSE Outcome(o.st, RetStrong(o.st[o.ret.loc]))

\* The member operators, as functions of the store.
MulAssign(st, this, rhs) == CompoundAssign(st, this, "*", st[rhs])
DivAssign(st, this, rhs) == CompoundAssign(st, this, "/", st[rhs])
AddAssign(st, this, rhs) == CompoundAssign(st, this, "+", st[rhs])
SubAssign_Adds(st, this, rhs) == CompoundAssign(st, this, "+", st[rhs])
SubAssign(st, this, rhs) == CompoundAssign(st, this, "-", st[rhs])
MulAssignBase(st, this, rhs) == CompoundAssign(st, this, "*", st[rhs])
DivAssignBase_Multiplies(st, this, rhs) == CompoundAssign(st, this, "*", st[rhs])
DivAssignBase(st, this, rhs) == CompoundAssign(st, this, "/", st[rhs])

\* ++value / --value on the built-in type.
PrimInc(T, x) == PrimAdd(T, x, 1)
PrimDec(T, x) == PrimSub(T, x, 1)
PreInc(st, this) == Outcome([st EXCEPT ![this] = PrimInc(BaseT, st[this])], RetRef(this))
PreDec(st, this) == Outcome([st EXCEPT ![this] = PrimDec(BaseT, st[this])], RetRef(this))
\* `++(*this); return *this;` in place of the body below.
PostInc_ReturnsNew(st, this) ==
    LET after == PreInc(st, this)
    IN  Outcome(after.st, RetStrong(after.st[this]))
\* `StrongT result(*this); ++(*this); return result;`
PostInc(st, this) ==
    LET result == st[this]
        after == PreInc(st, this)
    IN  Outcome(after.st, RetStrong(result))
PostDec(st, this) ==
    LET result == st[this]
        after == PreDec(st, this)
    IN  Outcome(after.st, RetStrong(result))

\* The strong-vs-strong comparisons.
Eq(st, lhs, rhs) == PrimEq(BaseT, st[lhs], st[rhs])
Ne(st, lhs, rhs) == ~Eq(st, lhs, rhs)
Lt(st, lhs, rhs) == PrimLt(BaseT, st[lhs], st[rhs])
Gt(st, lhs, rhs) == Lt(st, rhs, lhs)
Le(st, lhs, rhs) == ~Lt(st, rhs, lhs)
Ge(st, lhs, rhs) == ~Lt(st, lhs, rhs)

\* Between statements of a program that compiled.
Ready == inst = "ok" /\ last.fn = "none"

\* The history a test program keeps of object a while the count is on: the
\* numbers n, m of ++ and -- applied to a, the value p a bare BaseT started
\* at v0 holds after the same ++ and --, and the result r of the first a++
\* or a-- (`auto &&r = a++;`, which outlives the statement) with the value
\* rv that a held before it.
Counted(h, fn, l, pre, ret) ==
    IF ~h.on \/ l.loc # "a" THEN h
    ELSE LET k == IF h.r.kind = "none" /\ fn \in {"operator++(int)", "operator--(int)"}
                  THEN [h EXCEPT !.r = ret, !.rv = pre["a"]]
                  ELSE h
         IN  IF fn \in {"operator++()", "operator++(int)"}
             THEN [k EXCEPT !.n = @ + 1, !.p = PrimInc(BaseT, @)]
             ELSE IF fn \in {"operator--()", "operator--(int)"}
             THEN [k EXCEPT !.m = @ + 1, !.p = PrimDec(BaseT, @)]
             ELSE k

\* A statement `l sym r;` that overload resolution gives to operator ov:
\* one of the outcomes outs of its body becomes the program's state.
Evaluate(fn, ov, l, r, outs) ==
    /\ Ready
    /\ Viable(ov, l, r)
    /\ hist.on => hist.n + hist.m < MaxSteps
    /\ \E o \in outs :
        /\ value' = [x \in DOMAIN value |-> o.st[x]]
        /\ last' = [fn |-> fn, sym |-> ov.sym, lhs |-> l, rhs |-> r,
                    pre |-> value, sin |-> stream, ret |-> o.ret]
        /\ hist' = Counted(hist, fn, l, value, o.ret)
    /\ UNCHANGED <<enumT, BaseT, inst, stream>>

\* The end of the full-expression: temporaries are destroyed.  A program
\* that trapped has terminated.
EndStatement ==
    /\ last.fn # "none"
    /\ last.ret.kind # "trap"
    /\ last' = Idle(value, stream)
    /\ UNCHANGED <<enumT, BaseT, inst, value, stream, hist>>

\* --------------------------------------------- arithmetic, strong and strong
ExprMulAssign(l, r) ==
    Evaluate("operator*=(StrongT)", OvMulAssign, l, r,
             MulAssign(Frame(value, l, r), ByRef("lhs", l), ByRef("rhs", r)))
ExprMul(l, r) ==
    Evaluate("operator*(StrongT,StrongT)", OvMul, l, r,
             {ReturnCopy(o) : o \in MulAssign(Frame(value, l, r), ByValue("lhs", l), ByRef("rhs", r))})
ExprDivAssign(l, r) ==
    Evaluate("operator/=(StrongT)", OvDivAssign, l, r,
             DivAssign(Frame(value, l, r), ByRef("lhs", l), ByRef("rhs", r)))
ExprDiv(l, r) ==
    Evaluate("operator/(StrongT,StrongT)", OvDiv, l, r,
             {ReturnCopy(o) : o \in DivAssign(Frame(value, l, r), ByValue("lhs", l), ByRef("rhs", r))})
ExprAddAssign(l, r) ==
    Evaluate("operator+=(StrongT)", OvAddAssign, l, r,
             AddAssign(Frame(value, l, r), ByRef("lhs", l), ByRef("rhs", r)))
ExprAdd(l, r) ==
    Evaluate("operator+(StrongT,StrongT)", OvAdd, l, r,
             {ReturnCopy(o) : o \in AddAssign(Frame(value, l, r), ByValue("lhs", l), ByRef("rhs", r))})
ExprSubAssign(l, r) ==
    Evaluate("operator-=(StrongT)", OvSubAssign, l, r,
             SubAssign(Frame(value, l, r), ByRef("lhs", l), ByRef("rhs", r)))
ExprSub(l, r) ==
    Evaluate("operator-(StrongT,StrongT)", OvSub, l, r,
             {ReturnCopy(o) : o \in SubAssign(Frame(value, l, r), ByValue("lhs", l), ByRef("rhs", r))})

\* ------------------------------------------------------------ scalar scaling
ExprMulAssignBase(l, r) ==
    Evaluate("operator*=(BaseT)", OvMulAssignBase, l, r,
             MulAssignBase(Frame(value, l, r), ByRef("lhs", l), ByRef("rhs", r)))
ExprMulBase(l, r) ==
    Evaluate("operator*(StrongT,BaseT)", OvMulBase, l, r,
             {ReturnCopy(o) : o \in MulAssignBase(Frame(value, l, r), ByValue("lhs", l), ByRef("rhs", r))})
\* `return rhs *= lhs;`
ExprBaseMul(l, r) ==
    Evaluate("operator*(BaseT,StrongT)", OvBaseMul, l, r,
             {ReturnCopy(o) : o \in MulAssignBase(Frame(value, l, r), ByValue("rhs", r), ByRef("lhs", l))})
ExprDivAssignBase(l, r) ==
    Evaluate("operator/=(BaseT)", OvDivAssignBase, l, r,
             DivAssignBase(Frame(value, l, r), ByRef("lhs", l), ByRef("rhs", r)))
ExprDivBase(l, r) ==
    Evaluate("operator/(StrongT,BaseT)", OvDivBase, l, r,
             {ReturnCopy(o) : o \in DivAssignBase(Frame(value, l, r), ByValue("lhs", l), ByRef("rhs", r))})

\* ------------------------------------------------------- increment, decrement
ExprPreInc(l) ==
    Evaluate("operator++()", OvPreInc, l, NoArg,
             {PreInc(Frame(value, l, NoArg), ByRef("lhs", l))})
ExprPostInc(l) ==
    Evaluate("operator++(int)", OvPostInc, l, NoArg,
             {PostInc(Frame(value, l, NoArg), ByRef("lhs", l))})
ExprPreDec(l) ==
    Evaluate("operator--()", OvPreDec, l, NoArg,
             {PreDec(Frame(value, l, NoArg), ByRef("lhs", l))})
ExprPostDec(l) ==
    Evaluate("operator--(int)", OvPostDec, l, NoArg,
             {PostDec(Frame(value, l, NoArg), ByRef("lhs", l))})

\* ------------------------------------------------ comparison, strong and strong
\* A comparison returns a bool and writes nothing.
Compare(fn, ov, l, r, result) ==
    Evaluate(fn, ov, l, r, {Outcome(Frame(value, l, r), RetBool(result))})

ExprStrongEq(l, r) ==
    Compare("operator==(StrongT,StrongT)", OvCmp("=="), l, r,
            Eq(Frame(value, l, r), ByRef("lhs", l), ByRef("rhs", r)))
ExprStrongNe(l, r) ==
    Compare("operator!=(StrongT,StrongT)", OvCmp("!="), l, r,
            Ne(Frame(value, l, r), ByRef("lhs", l), ByRef("rhs", r)))
ExprStrongLt(l, r) ==
    Compare("operator<(StrongT,StrongT)", OvCmp("<"), l, r,
            Lt(Frame(value, l, r), ByRef("lhs", l), ByRef("rhs", r)))
ExprStrongGt(l, r) ==
    Compare("operator>(StrongT,StrongT)", OvCmp(">"), l, r,
            Gt(Frame(value, l, r), ByRef("lhs", l), ByRef("rhs", r)))
ExprStrongLe(l, r) ==
    Compare("operator<=(StrongT,StrongT)", OvCmp("<="), l, r,
            Le(Frame(value, l, r), ByRef("lhs", l), ByRef("rhs", r)))
ExprStrongGe(l, r) ==
    Compare("operator>=(StrongT,StrongT)", OvCmp(">="), l, r,
            Ge(Frame(value, l, r), ByRef("lhs", l), ByRef("rhs", r)))

\* ----------------------------------- comparison with a BaseT rvalue, both orders
ExprStrongEqLit(l, r) ==
    Compare("operator==(StrongT,BaseT&&)", OvCmpLit("=="), l, r,
            PrimEq(BaseT, Read(value, l), Read(value, r)))
ExprStrongNeLit(l, r) ==
    Compare("operator!=(StrongT,BaseT&&)", OvCmpLit("!="), l, r,
            PrimNe(BaseT, Read(value, l), Read(value, r)))
ExprStrongLtLit(l, r) ==
    Compare("operator<(StrongT,BaseT&&)", OvCmpLit("<"), l, r,
            PrimLt(BaseT, Read(value, l), Read(value, r)))
ExprStrongGtLit(l, r) ==
    Compare("operator>(StrongT,BaseT&&)", OvCmpLit(">"), l, r,
            PrimGt(BaseT, Read(value, l), Read(value, r)))
ExprStrongLeLit(l, r) ==
    Compare("operator<=(StrongT,BaseT&&)", OvCmpLit("<="), l, r,
            PrimLe(BaseT, Read(value, l), Read(value, r)))
ExprStrongGeLit(l, r) ==
    Compare("operator>=(StrongT,BaseT&&)", OvCmpLit(">="), l, r,
            PrimGe(BaseT, Read(value, l), Read(value, r)))
ExprLitEqStrong(l, r) ==
    Compare("operator==(BaseT&&,StrongT)", OvLitCmp("=="), l, r,
            PrimEq(BaseT, Read(value, l), Read(value, r)))
ExprLitNeStrong(l, r) ==
    Compare("operator!=(BaseT&&,StrongT)", OvLitCmp("!="), l, r,
            PrimNe(BaseT, Read(value, l), Read(value, r)))
ExprLitLtStrong(l, r) ==
    Compare("operator<(BaseT&&,StrongT)", OvLitCmp("<"), l, r,
            PrimLt(BaseT, Read(value, l), Read(value, r)))
ExprLitGtStrong(l, r) ==
    Compare("operator>(BaseT&&,StrongT)", OvLitCmp(">"), l, r,
            PrimGt(BaseT, Read(value, l), Read(value, r)))
ExprLitLeStrong(l, r) ==
    Compare("operator<=(BaseT&&,StrongT)", OvLitCmp("<="), l, r,
            PrimLe(BaseT, Read(value, l), Read(value, r)))
ExprLitGeStrong(l, r) ==
    Compare("operator>=(BaseT&&,StrongT)", OvLitCmp(">="), l, r,
            PrimGe(BaseT, Read(value, l), Read(value, r)))

\* ------------------------------------------- assignment and ill-formed programs
\* `l = r;` with the implicitly declared copy assignment of StrongT (or the
\* built-in assignment of BaseT), where r is of l's type or converts to it.
ExprAssign(l, r) ==
    /\ Ready
    /\ l.type = "StrongT" \/ r.type = "StrongT"
    /\ Assignable(l, r)
    /\ value' = [value EXCEPT ![l.loc] = Read(value, r)]
    /\ last' = [fn |-> "operator=", sym |-> "=", lhs |-> l, rhs |-> r,
                pre |-> value, sin |-> stream, ret |-> RetRef(l.loc)]
    /\ UNCHANGED <<enumT, BaseT, inst, stream, hist>>

\* A statement for which overload resolution finds no operator: the compiler
\* rejects the program, nothing is evaluated.  Only the operands' static
\* types take part.
Reject(sym, l, r) ==
    /\ Ready
    /\ <<sym, l, r>> \in Expressions
    /\ NoMatch(sym, l, r)
    /\ last' = [fn |-> "no match", sym |-> sym, lhs |-> StaticOf(l),
                rhs |-> StaticOf(r), pre |-> value, sin |-> stream, ret |-> IllFormed]
    /\ UNCHANGED <<enumT, BaseT, inst, value, stream, hist>>

\* ------------------------------------------- instantiation and construction
\* The two static_asserts of the class template.
StaticAsserts(k, T) == IsArithmetic(T) /\ IsEnum(k)

\* The program names StrongType<k-type, value, T> for the first time.
Instantiate(k, T) ==
    /\ inst = "template"
    /\ enumT' = k
    /\ BaseT' = T
    /\ inst' = IF StaticAsserts(k, T) THEN "ok" ELSE "ill-formed"
    /\ UNCHANGED <<value, last, stream, hist>>

\* A constructor that value-initialises the member and drops its argument.
StrongType_DropsArgument(tv) == 0
\* explicit constexpr StrongType(BaseT tv) : value(tv) {}
StrongType(tv) == tv

\* The definition `StrongT o(v);` of an object the program has not defined yet.
Construct(o, v) ==
    /\ Ready
    /\ o \in StrongObjects \ DOMAIN value
    /\ v \in Values(BaseT)
    /\ value' = [x \in DOMAIN value \cup {o} |->
                    IF x = o THEN StrongType(v) ELSE value[x]]
    /\ last' = [fn |-> "StrongType(BaseT)", sym |-> "ctor", lhs |-> Strong(o),
                rhs |-> Literal(v), pre |-> value, sin |-> stream, ret |-> NoRet]
    /\ UNCHANGED <<enumT, BaseT, inst, stream, hist>>

\* A conversion of strong object l back to BaseT: reads, writes nothing.
Convert(fn, sym, l, ret) ==
    /\ Ready
    /\ l \in StrongArgs
    /\ last' = [fn |-> fn, sym |-> sym, lhs |-> l, rhs |-> NoArg,
                pre |-> value, sin |-> stream, ret |-> ret]
    /\ UNCHANGED <<enumT, BaseT, inst, value, stream, hist>>

\* static_cast<BaseT>(l)
ExprCast(l) == Convert("operator BaseT()", "static_cast", l, RetBase(value[l.loc]))
\* l.as_base() on a non-const object: a reference to its value
ExprAsBase(l) == ~l.const /\ Convert("as_base()", "as_base", l, RetBaseRef(l.loc))
\* l.as_base() on a const object: a copy of its value
ExprAsBaseConst(l) == l.const /\ Convert("as_base() const", "as_base", l, RetBase(value[l.loc]))

\* What a returned BaseT or BaseT& denotes.
Deref(st, ret) == IF ret.kind \in {"BaseT&", "StrongT&"} THEN st[ret.loc] ELSE ret.val

\* -------------------------------------------------------------- text streams
\* A std::stringstream: the characters written and not yet read, the error
\* state (a subset of {"eof", "fail"}), and the number of insertions made.
\* A character is a one-character string.
Digits == <<"0", "1", "2", "3", "4", "5", "6", "7", "8", "9">>
IsDigit(c) == \E i \in 1 .. Len(Digits) : Digits[i] = c
DigitValue(c) == (CHOOSE i \in 1 .. Len(Digits) : Digits[i] = c) - 1

RECURSIVE Decimal(_)
Decimal(n) ==
    IF n < Len(Digits) THEN <<Digits[n + 1]>>
    ELSE Decimal(n \div Len(Digits)) \o <<Digits[(n % Len(Digits)) + 1]>>

\* The text num_put writes for a BaseT value.
Format(T, v) ==
    IF T = "unsigned" THEN Decimal(v)
    ELSE IF v = NaN THEN <<"n", "a", "n">>
    ELSE IF v = PosInf THEN <<"i", "n", "f">>
    ELSE IF v = NegInf THEN <<"-", "i", "n", "f">>
    ELSE IF v < 0 THEN <<"-">> \o Decimal(0 - v)
    ELSE Decimal(v)

RECURSIVE SkipSpace(_)
SkipSpace(buf) ==
    IF buf # << >> /\ Head(buf) = " " THEN SkipSpace(Tail(buf)) ELSE buf

RECURSIVE CountDigits(_)
CountDigits(buf) ==
    IF buf # << >> /\ IsDigit(Head(buf)) THEN 1 + CountDigits(Tail(buf)) ELSE 0

RECURSIVE Number(_)
Number(ds) ==
    IF ds = << >> THEN 0
    ELSE Len(Digits) * Number(SubSeq(ds, 1, Len(ds) - 1)) + DigitValue(ds[Len(ds)])

\* The value num_get stores for the digits n with sign neg, and whether it
\* was in range: out of range stores the largest value and fails.
Converted(T, neg, n) ==
    IF T = "unsigned"
    THEN IF n > Modulus - 1 THEN [val |-> Modulus - 1, ok |-> FALSE]
         ELSE [val |-> (IF neg THEN (0 - n) % Modulus ELSE n), ok |-> TRUE]
    ELSE IF n > FMax THEN [val |-> (IF neg THEN 0 - FMax ELSE FMax), ok |-> FALSE]
         ELSE [val |-> (IF neg THEN 0 - n ELSE n), ok |-> TRUE]

\* os << v on the built-in type: nothing is written unless the stream is good.
PrimInsert(T, s, v) ==
    IF s.state = {} THEN [s EXCEPT !.buf = @ \o Format(T, v), !.writes = @ + 1]
    ELSE s

\* is >> x on the built-in type, x holding old: the stream afterwards and the
\* value x then holds.  A stream that is not good only fails; otherwise
\* white space is skipped, a sign and the digits that follow are consumed.
PrimExtract(T, s, old) ==
    IF s.state # {}
    THEN [stream |-> [s EXCEPT !.state = @ \cup {"fail"}], value |-> old]
    ELSE
      LET b1 == SkipSpace(s.buf) IN
      IF b1 = << >>
      THEN [stream |-> [s EXCEPT !.buf = << >>, !.state = {"eof", "fail"}],
            value |-> old]
      ELSE
        LET neg == Head(b1) = "-"
            b2 == IF Head(b1) \in {"-", "+"} THEN Tail(b1) ELSE b1
            k == CountDigits(b2)
            rest == SubSeq(b2, k + 1, Len(b2))
            eof == IF rest = << >> THEN {"eof"} ELSE {}
            c == Converted(T, neg, Number(SubSeq(b2, 1, k)))
        IN  IF k = 0
            THEN [stream |-> [s EXCEPT !.buf = rest, !.state = eof \cup {"fail"}],
                  value |-> 0]
            ELSE [stream |-> [s EXCEPT !.buf = rest,
                                       !.state = eof \cup (IF c.ok THEN {} ELSE {"fail"})],
                  value |-> c.val]

\* The texts a program's stream is constructed from.
Inputs ==
    {<< >>, <<"1">>, <<" ", "1">>, <<"1", "x">>, <<"x">>, <<"-", "1">>,
     <<"9", "9">>, <<"1", " ", "0">>, <<"-">>, <<" ">>}

\* `std::stringstream stream(text);`
OpenStream(text) ==
    /\ Ready
    /\ ~stream.open
    /\ stream' = [open |-> TRUE, buf |-> text, state |-> {}, writes |-> 0]
    /\ last' = Idle(value, stream')
    /\ UNCHANGED <<enumT, BaseT, inst, value, hist>>

\* The stream goes out of scope.
CloseStream ==
    /\ Ready
    /\ stream.open
    /\ stream' = [open |-> FALSE, buf |-> << >>, state |-> {}, writes |-> 0]
    /\ last' = Idle(value, stream')
    /\ UNCHANGED <<enumT, BaseT, inst, value, hist>>

\* The bodies of the two stream operators: `return os << rhs.value;` and
\* `return is >> rhs.value;`.
Insert_Delimited(os, st, rhs) ==
    LET s == PrimInsert(BaseT, os, st[rhs])
    IN  IF os.state = {} THEN [s EXCEPT !.buf = @ \o <<" ">>] ELSE s
Insert(os, st, rhs) == PrimInsert(BaseT, os, st[rhs])
Extract(is, st, rhs) == PrimExtract(BaseT, is, st[rhs])

\* friend std::ostream &operator<<(std::ostream &os, const StrongT &rhs)
ExprInsert(r) ==
    /\ Ready
    /\ stream.open
    /\ stream.writes < MaxInserts
    /\ Binds("const StrongT&", r.tag, r)
    /\ stream' = Insert(stream, value, r.loc)
    /\ last' = [fn |-> "operator<<", sym |-> "<<", lhs |-> NoArg, rhs |-> r,
                pre |-> value, sin |-> stream, ret |-> RetStream]
    /\ UNCHANGED <<enumT, BaseT, inst, value, hist>>

\* friend std::istream &operator>>(std::istream &is, StrongT &rhs)
ExprExtract(r) ==
    /\ Ready
    /\ stream.open
    /\ r.type = "StrongT" /\ r.cat = "lvalue" /\ ~r.const
    /\ LET got == Extract(stream, value, r.loc)
       IN  /\ stream' = got.stream
           /\ value' = [value EXCEPT ![r.loc] = got.value]
    /\ last' = [fn |-> "operator>>", sym |-> ">>", lhs |-> NoArg, rhs |-> r,
                pre |-> value, sin |-> stream, ret |-> RetStream]
    /\ UNCHANGED <<enumT, BaseT, inst, hist>>

\* ------------------------------------------------------------------ programs
NoStream == [open |-> FALSE, buf |-> << >>, state |-> {}, writes |-> 0]
NoCount == [on |-> FALSE, v0 |-> 0, n |-> 0, m |-> 0, p |-> 0, r |-> NoRet, rv |-> 0]

\* A program that instantiated StrongType with an enum class tag and an
\* arithmetic BaseT and defined a, b (Meters), the constant c (Seconds) and
\* the BaseT variable k.
Init ==
    /\ enumT = "enum class"
    /\ BaseT \in ArithmeticTypes
    /\ inst = "ok"
    /\ value \in {v \in [Objects -> Values(BaseT)] : v["c"] = 0}
    /\ stream = NoStream
    /\ last = Idle(value, stream)
    /\ hist = NoCount

\* Between statements, with no stream in scope: the programs considered keep
\* a stream in a block of stream statements.
Computing == Ready /\ ~stream.open

Next ==
    \/ Computing /\ \E l, r \in Args : ExprMulAssign(l, r)
    \/ Computing /\ \E l, r \in Args : ExprMul(l, r)
    \/ Computing /\ \E l, r \in Args : ExprDivAssign(l, r)
    \/ Computing /\ \E l, r \in Args : ExprDiv(l, r)
    \/ Computing /\ \E l, r \in Args : ExprAddAssign(l, r)
    \/ Computing /\ \E l, r \in Args : ExprAdd(l, r)
    \/ Computing /\ \E l, r \in Args : ExprSubAssign(l, r)
    \/ Computing /\ \E l, r \in Args : ExprSub(l, r)
    \/ Computing /\ \E l, r \in Args : ExprMulAssignBase(l, r)
    \/ Computing /\ \E l, r \in Args : ExprMulBase(l, r)
    \/ Computing /\ \E l, r \in Args : ExprBaseMul(l, r)
    \/ Computing /\ \E l, r \in Args : ExprDivAssignBase(l, r)
    \/ Computing /\ \E l, r \in Args : ExprDivBase(l, r)
    \/ Computing /\ \E l \in Args : ExprPreInc(l)
    \/ Computing /\ \E l \in Args : ExprPostInc(l)
    \/ Computing /\ \E l \in Args : ExprPreDec(l)
    \/ Computing /\ \E l \in Args : ExprPostDec(l)
    \/ Computing /\ \E l, r \in Args : ExprStrongEq(l, r)
    \/ Computing /\ \E l, r \in Args : ExprStrongNe(l, r)
    \/ Computing /\ \E l, r \in Args : ExprStrongLt(l, r)
    \/ Computing /\ \E l, r \in Args : ExprStrongGt(l, r)
    \/ Computing /\ \E l, r \in Args : ExprStrongLe(l, r)
    \/ Computing /\ \E l, r \in Args : ExprStrongGe(l, r)
    \/ Computing /\ \E l, r \in Args : ExprStrongEqLit(l, r)
    \/ Computing /\ \E l, r \in Args : ExprStrongNeLit(l, r)
    \/ Computing /\ \E l, r \in Args : ExprStrongLtLit(l, r)
    \/ Computing /\ \E l, r \in Args : ExprStrongGtLit(l, r)
    \/ Computing /\ \E l, r \in Args : ExprStrongLeLit(l, r)
    \/ Computing /\ \E l, r \in Args : ExprStrongGeLit(l, r)
    \/ Computing /\ \E l, r \in Args : ExprLitEqStrong(l, r)
    \/ Computing /\ \E l, r \in Args : ExprLitNeStrong(l, r)
    \/ Computing /\ \E l, r \in Args : ExprLitLtStrong(l, r)
    \/ Computing /\ \E l, r \in Args : ExprLitGtStrong(l, r)
    \/ Computing /\ \E l, r \in Args : ExprLitLeStrong(l, r)
    \/ Computing /\ \E l, r \in Args : ExprLitGeStrong(l, r)
    \/ Computing /\ \E l, r \in Args : ExprAssign(l, r)
    \/ Computing /\ \E e \in Expressions : Reject(e[1], e[2], e[3])
    \/ Computing /\ \E l \in StrongArgs : ExprCast(l)
    \/ Computing /\ \E l \in StrongArgs : ExprAsBase(l)
    \/ Computing /\ \E l \in StrongArgs : ExprAsBaseConst(l)
    \/ EndStatement
    \/ OpenStream(<< >>)
    \/ \E r \in Args : ExprInsert(r)
    \/ CloseStream

Spec == Init /\ [][Next]_vars

\* A program that reads and writes a stream: it defined a and b only.
InitIO ==
    /\ enumT = "enum class"
    /\ BaseT \in ArithmeticTypes
    /\ inst = "ok"
    /\ value \in [{"a", "b"} -> Values(BaseT)]
    /\ stream = NoStream
    /\ last = Idle(value, stream)
    /\ hist = NoCount

NextIO ==
    \/ \E text \in Inputs : OpenStream(text)
    \/ \E r \in Args : ExprInsert(r)
    \/ \E r \in Args : ExprExtract(r)
    \/ CloseStream
    \/ EndStatement

SpecIO == InitIO /\ [][NextIO]_vars

\* A program from its first use of the template on.
InitTemplate ==
    /\ enumT = "none"
    /\ BaseT = "none"
    /\ inst = "template"
    /\ value = [x \in {} |-> 0]
    /\ stream = NoStream
    /\ last = Idle(value, stream)
    /\ hist = NoCount

NextCtor ==
    \/ \E k \in TagKinds, T \in TypeNames : Instantiate(k, T)
    \/ Ready /\ \E o \in StrongObjects, v \in Values(BaseT) : Construct(o, v)
    \/ Ready /\ \E l \in StrongArgs : ExprCast(l)
    \/ Ready /\ \E l \in StrongArgs : ExprAsBase(l)
    \/ Ready /\ \E l \in StrongArgs : ExprAsBaseConst(l)
    \/ EndStatement

SpecCtor == InitTemplate /\ [][NextCtor]_vars

\* A program that only increments and decrements; the ++ and -- applied to a
\* are counted from the start.
InitIncDec ==
    /\ enumT = "enum class"
    /\ BaseT \in ArithmeticTypes
    /\ inst = "ok"
    /\ value \in {v \in [Objects -> Values(BaseT)] : v["c"] = 0}
    /\ stream = NoStream
    /\ last = Idle(value, stream)
    /\ hist = [NoCount EXCEPT !.on = TRUE, !.v0 = value["a"], !.p = value["a"]]

NextIncDec ==
    \/ Ready /\ \E l \in Args : ExprPreInc(l)
    \/ Ready /\ \E l \in Args : ExprPostInc(l)
    \/ Ready /\ \E l \in Args : ExprPreDec(l)
    \/ Ready /\ \E l \in Args : ExprPostDec(l)
    \/ EndStatement

SpecIncDec == InitIncDec /\ [][NextIncDec]_vars

\* =================================================================== claims
\* The operands' values before the statement `last`.
Lhs0 == Read(last.pre, last.lhs)
Rhs0 == Read(last.pre, last.rhs)
\* The arithmetic symbol of an operator: "*" for both * and *=.
ArithOf(sym) ==
    CASE sym \in {"*", "*="} -> "*"
      [] sym \in {"/", "/="} -> "/"
      [] sym \in {"+", "+="} -> "+"
      [] sym \in {"-", "-="} -> "-"
\* v is what BaseT makes of x op y: the one result where the operation is
\* defined, and some value of the type where it is not.
AsPrimitive(v, op, x, y) ==
    IF Undefined(BaseT, op, y) THEN v \in Values(BaseT)
    ELSE v = Prim(BaseT, op, x, y)
Done == last.fn # "none"
Rejected == last.ret.kind = "ill-formed"
NothingRan == value = last.pre /\ stream = last.sin

StrongBinaryFns == {"operator*(StrongT,StrongT)", "operator/(StrongT,StrongT)",
                    "operator+(StrongT,StrongT)", "operator-(StrongT,StrongT)"}
StrongCompoundFns == {"operator*=(StrongT)", "operator/=(StrongT)",
                      "operator+=(StrongT)", "operator-=(StrongT)"}
ScalarBinaryFns == {"operator*(StrongT,BaseT)", "operator*(BaseT,StrongT)",
                    "operator/(StrongT,BaseT)"}
ScalarCompoundFns == {"operator*=(BaseT)", "operator/=(BaseT)"}
StrongCmpFns == {"operator==(StrongT,StrongT)", "operator!=(StrongT,StrongT)",
                 "operator<(StrongT,StrongT)", "operator>(StrongT,StrongT)",
                 "operator<=(StrongT,StrongT)", "operator>=(StrongT,StrongT)"}
ArithSyms == {"+", "-", "*", "/", "+=", "-=", "*=", "/="}

\* C1: an arithmetic or comparison operator with strong operands of two
\* different tags, and an assignment between a strong value and a bare
\* BaseT in either direction, is rejected by the compiler and nothing runs.
C1_TypeIsolation ==
    /\ (/\ Done
        /\ last.sym \in ArithSyms \cup CmpSyms
        /\ last.lhs.type = "StrongT" /\ last.rhs.type = "StrongT"
        /\ last.lhs.tag # last.rhs.tag)
       => Rejected /\ NothingRan
    /\ (/\ Done
        /\ last.sym = "="
        /\ {last.lhs.type, last.rhs.type} = {"StrongT", "BaseT"})
       => Rejected /\ NothingRan

C1_Witness ==
    /\ Rejected
    /\ last.sym = "+="
    /\ last.lhs.tag = "Meters" /\ last.rhs.tag = "Seconds"

C1_WitnessAssign ==
    /\ Rejected
    /\ last.sym = "="
    /\ last.lhs.type = "BaseT" /\ last.rhs.type = "StrongT"

\* C2: the constructor stores exactly the value it is given, and the explicit
\* cast and both as_base() accessors yield exactly the stored value, leaving
\* it unchanged.
C2_RoundTrip ==
    /\ last.sym = "ctor" => value[last.lhs.loc] = last.rhs.val
    /\ last.sym \in {"static_cast", "as_base"} =>
          /\ Deref(value, last.ret) = last.pre[last.lhs.loc]
          /\ value = last.pre

C2_Witness ==
    /\ BaseT = "double"
    /\ last.fn = "as_base()"
    /\ last.ret.kind = "BaseT&"
    /\ Deref(value, last.ret) = NaN

\* C3: a op b on two strong values of one tag yields a strong value holding
\* raw(a) op raw(b) as BaseT computes it, operands untouched; a op= b leaves
\* that value in a and returns a itself, also when b is a.  Where BaseT
\* leaves the operation undefined (integer division by zero) the strong
\* operator does whatever the primitive may do, and only there.
C3_ArithmeticHomomorphism ==
    /\ last.fn \in StrongBinaryFns \cup StrongCompoundFns =>
          /\ last.lhs.tag = last.rhs.tag
          /\ last.ret.kind = "trap" => Undefined(BaseT, ArithOf(last.sym), Rhs0)
          /\ last.ret.kind = "trap" => value = last.pre
    /\ last.fn \in StrongBinaryFns /\ last.ret.kind # "trap" =>
          /\ last.ret.kind = "StrongT"
          /\ AsPrimitive(last.ret.val, ArithOf(last.sym), Lhs0, Rhs0)
    /\ last.fn \in StrongCompoundFns /\ last.ret.kind # "trap" =>
          /\ last.ret = RetRef(last.lhs.loc)
          /\ AsPrimitive(value[last.lhs.loc], ArithOf(last.sym), Lhs0, Rhs0)

\* a -= a on an unsigned a, and a product that wraps.
C3_Witness ==
    /\ BaseT = "unsigned"
    /\ last.fn = "operator*=(StrongT)"
    /\ last.lhs.loc = "a" /\ last.rhs.loc = "a"
    /\ last.pre["a"] = Modulus - 1
    /\ value["a"] = 1
    /\ last.ret = RetRef("a")

C3_WitnessDivision ==
    /\ BaseT = "double"
    /\ last.fn = "operator/(StrongT,StrongT)"
    /\ Rhs0 = 0 /\ Lhs0 = 1
    /\ last.ret.val = PosInf

\* C4, as stated: each strong-vs-strong comparison returns what the same
\* primitive comparison returns on the raw values, for every value of an
\* integer or floating-point BaseT.
C4_OrderingConsistency ==
    last.fn \in StrongCmpFns =>
        /\ last.ret.kind = "bool"
        /\ last.ret.flag = PrimCmp(BaseT, last.sym, Lhs0, Rhs0)

\* C5: a * k, k * a and a / k yield a strong value holding raw(a) * k,
\* raw(a) * k and raw(a) / k; a *= k and a /= k leave those values in a; and
\* k / a is rejected by the compiler.
C5_ScalarScaling ==
    /\ last.fn \in ScalarBinaryFns \cup ScalarCompoundFns /\ last.ret.kind = "trap" =>
          Undefined(BaseT, ArithOf(last.sym), Rhs0)
    /\ last.fn \in {"operator*(StrongT,BaseT)", "operator/(StrongT,BaseT)"}
       /\ last.ret.kind # "trap" =>
          /\ last.lhs.type = "StrongT" /\ last.rhs.type = "BaseT"
          /\ last.ret.kind = "StrongT"
          /\ AsPrimitive(last.ret.val, ArithOf(last.sym), Lhs0, Rhs0)
    /\ last.fn = "operator*(BaseT,StrongT)" =>
          /\ last.lhs.type = "BaseT" /\ last.rhs.type = "StrongT"
          /\ last.ret = RetStrong(PrimMul(BaseT, Rhs0, Lhs0))
    /\ last.fn \in ScalarCompoundFns /\ last.ret.kind # "trap" =>
          /\ last.lhs.type = "StrongT" /\ last.rhs.type = "BaseT"
          /\ last.ret = RetRef(last.lhs.loc)
          /\ AsPrimitive(value[last.lhs.loc], ArithOf(last.sym), Lhs0, Rhs0)
    /\ (Done /\ last.sym = "/" /\ last.lhs.type = "BaseT" /\ last.rhs.type = "StrongT")
          => Rejected /\ NothingRan

C5_Witness ==
    /\ last.fn = "operator*(BaseT,StrongT)"
    /\ last.lhs.cat = "lvalue"
    /\ Lhs0 = PrimSub(BaseT, 0, 1) /\ Rhs0 = 1
    /\ last.ret.val = Lhs0

C5_WitnessNoInverse ==
    /\ Rejected
    /\ last.sym = "/"
    /\ last.lhs.type = "BaseT" /\ last.lhs.cat = "prvalue"
    /\ last.rhs.type = "StrongT"

\* What each ++ / -- does: the pre forms leave v+1 (v-1) in the object and
\* return the object itself; the post forms leave the same and return a copy
\* holding v.  The copy r the program kept still holds rv.
IncDecStep ==
    /\ last.fn = "operator++()" =>
          /\ last.ret = RetRef(last.lhs.loc)
          /\ value[last.lhs.loc] = PrimAdd(BaseT, Lhs0, 1)
    /\ last.fn = "operator--()" =>
          /\ last.ret = RetRef(last.lhs.loc)
          /\ value[last.lhs.loc] = PrimSub(BaseT, Lhs0, 1)
    /\ last.fn = "operator++(int)" =>
          /\ last.ret = RetStrong(Lhs0)
          /\ value[last.lhs.loc] = PrimAdd(BaseT, Lhs0, 1)
    /\ last.fn = "operator--(int)" =>
          /\ last.ret = RetStrong(Lhs0)
          /\ value[last.lhs.loc] = PrimSub(BaseT, Lhs0, 1)
    /\ hist.r.kind # "none" =>
          /\ hist.r.kind = "StrongT"
          /\ Deref(value, hist.r) = hist.rv

\* v+n-m read as one number brought into the type, and read as the
\* expression (v + n) - m evaluated in the type.
RECURSIVE AddN(_, _, _)
AddN(T, v, n) == IF n = 0 THEN v ELSE AddN(T, PrimAdd(T, v, 1), n - 1)
RECURSIVE SubN(_, _, _)
SubN(T, v, m) == IF m = 0 THEN v ELSE SubN(T, PrimSub(T, v, 1), m - 1)
ClosedForm(T, v, n, m) ==
    IF T = "unsigned" THEN (v + n - m) % Modulus
    ELSE IF IsFinite(v) THEN FRound(v + n - m)
    ELSE v

C7_LiteralAsymmetry ==
    (/\ Done
     /\ last.sym \in CmpSyms
     /\ {last.lhs.type, last.rhs.type} = {"StrongT", "BaseT"})
    => LET raw == IF last.lhs.type = "BaseT" THEN last.lhs ELSE last.rhs
       IN  IF raw.cat = "prvalue"
           THEN /\ last.ret = RetBool(PrimCmp(BaseT, last.sym, Lhs0, Rhs0))
                /\ NothingRan
           ELSE Rejected /\ NothingRan

C7_Witness ==
    /\ last.fn = "operator<(BaseT&&,StrongT)"
    /\ Lhs0 = 0 /\ Rhs0 = 1
    /\ last.ret = RetBool(TRUE)

C7_WitnessNamed ==
    /\ Rejected
    /\ last.sym = "=="
    /\ last.lhs.type = "StrongT"
    /\ last.rhs.type = "BaseT" /\ last.rhs.cat = "lvalue"

\* The tag type is a scoped enumeration.
IsScopedEnum(k) == k = "enum class"

\* C8, as stated: an instantiation compiles if and only if the tag type is
\* a scoped enumeration and BaseT is arithmetic.
C8_InstantiationConstraints ==
    inst # "template" =>
        (inst = "ok" <=> IsScopedEnum(enumT) /\ IsArithmetic(BaseT))

\* C9: the binary arithmetic operators, the scaling operators a * k, k * a,
\* a / k, every comparison and stream insertion leave every object as it
\* was; a compound assignment changes at most its left operand; and only
\* stream insertion changes the stream.
C9_SideEffects ==
    /\ last.fn \in StrongBinaryFns \cup ScalarBinaryFns => value = last.pre
    /\ (Done /\ last.sym \in CmpSyms) => value = last.pre
    /\ last.fn = "operator<<" => value = last.pre
    /\ last.fn \in StrongCompoundFns \cup ScalarCompoundFns =>
          \A o \in DOMAIN value \ {last.lhs.loc} : value[o] = last.pre[o]
    /\ (Done /\ last.fn # "operator<<") => stream = last.sin
    /\ DOMAIN value = DOMAIN last.pre

C9_Witness ==
    /\ last.fn = "operator+=(StrongT)"
    /\ last.lhs.loc = "a" /\ last.rhs.loc = "b"
    /\ value["a"] # last.pre["a"]
    /\ value["b"] = last.pre["b"]

C9_WitnessPure ==
    /\ last.fn = "operator-(StrongT,StrongT)"
    /\ last.lhs.loc = "a"
    /\ last.ret.val # last.pre["a"]
    /\ value = last.pre

\* C10: inserting a strong value does to the stream what inserting its raw
\* value does, appending that value's text and nothing else to a good
\* stream; extracting into a strong value leaves the stream and the value as
\* extracting into a BaseT holding the same value does; and a finite value
\* written and read back is the value written.
C10_StreamFidelity ==
    /\ last.fn = "operator<<" =>
          /\ stream = PrimInsert(BaseT, last.sin, Rhs0)
          /\ last.sin.state = {} => stream.buf = last.sin.buf \o Format(BaseT, Rhs0)
          /\ value = last.pre
    /\ last.fn = "operator>>" =>
          LET bare == PrimExtract(BaseT, last.sin, Rhs0)
          IN  /\ stream = bare.stream
              /\ value[last.rhs.loc] = bare.value
              /\ \A o \in DOMAIN value \ {last.rhs.loc} : value[o] = last.pre[o]
              /\ \A v \in Values(BaseT) :
                    (/\ IsFinite(v) \/ BaseT = "unsigned"
                     /\ last.sin.state = {}
                     /\ last.sin.buf = Format(BaseT, v))
                    => value[last.rhs.loc] = v /\ "fail" \notin stream.state

\* a was written to an empty stream and read back into b, which differed.
C10_Witness ==
    /\ last.fn = "operator>>"
    /\ last.rhs.loc = "b"
    /\ last.sin.writes = 1
    /\ last.sin.buf = Format(BaseT, value["a"])
    /\ last.pre["b"] # value["a"]
    /\ value["b"] = value["a"]
    /\ value["a"] = PrimSub(BaseT, 0, 1)

C10_WitnessFailed ==
    /\ last.fn = "operator>>"
    /\ last.sin.state = {}
    /\ stream.state = {"fail"}
    /\ value[last.rhs.loc] = 0
    /\ last.pre[last.rhs.loc] # 0

====
